---- MODULE Spec2Model ----
(***************************************************************************)
(* Uniform-cost search of hw01/ucs_search.py: the frontier (a heapq of     *)
(* (cost, tie, node, path) tuples), the best-cost table, the counters and  *)
(* the ways the loop ends: a result, the no-path error, a KeyError.        *)
(***************************************************************************)
EXTENDS Integers, Sequences, FiniteSets, TLC

VARIABLES graph, start, goal, frontier, tie, best_cost, nodes_generated,
          popped, pc, result

vars == <<graph, start, goal, frontier, tie, best_cost, nodes_generated,
          popped, pc, result>>

(* ---------------- bounds of the synthetic inputs ---------------- *)
MaxNodes == 3
MaxWeight == 1

(* ---------------- node identifiers (Python str) ---------------- *)
\* Every identifier the model uses, in Python's str order (code points).
SortedNames ==
    << "Albany", "Allentown", "Binghamton", "Elmira", "Harrisburg", "Ithaca",
       "Lancaster", "New York City", "Newark", "Nowhere", "Paterson",
       "Philadelphia", "Scranton", "Stroudsburg", "Syracuse", "Trenton",
       "Wilkes-Barre", "Williamsport", "a", "b", "c", "d", "e", "f" >>

StrRank(s) == CHOOSE i \in 1..Len(SortedNames) : SortedNames[i] = s

StrLess(a, b) == StrRank(a) < StrRank(b)

\* list < list in Python: lexicographic, a proper prefix is smaller.
RECURSIVE ListLess(_, _)
ListLess(p, q) ==
    IF q = <<>> THEN FALSE
    ELSE IF p = <<>> THEN TRUE
    ELSE IF Head(p) # Head(q) THEN StrLess(Head(p), Head(q))
    ELSE ListLess(Tail(p), Tail(q))

(* ---------------- the frontier: heapq over tuples ---------------- *)
Entry(c, t, n, p) == [cost |-> c, tie |-> t, node |-> n, path |-> p]

\* Variant: the insertion number compared before the cost (a FIFO queue).
TupleLess_TieFirst(x, y) ==
    IF x.tie # y.tie THEN x.tie < y.tie
    ELSE IF x.cost # y.cost THEN x.cost < y.cost
    ELSE IF x.node # y.node THEN StrLess(x.node, y.node)
    ELSE ListLess(x.path, y.path)

\* tuple < tuple for (cost, tie, node, path): the order heapq keeps.
TupleLess(x, y) ==
    IF x.cost # y.cost THEN x.cost < y.cost
    ELSE IF x.tie # y.tie THEN x.tie < y.tie
    ELSE IF x.node # y.node THEN StrLess(x.node, y.node)
    ELSE ListLess(x.path, y.path)

\* heapq.heappop: the smallest tuple of the heap.
HeapMin(h) == CHOOSE x \in h : \A y \in h : y = x \/ TupleLess(x, y)

HeapPush(h, x) == h \cup {x}

(* ---------------- graphs: dict of dict, in insertion order ---------------- *)
\* An inner dict is the sequence of its items <<neighbor, step_cost>>.
DictSet(items, k, v) ==
    IF \E i \in 1..Len(items) : items[i][1] = k
    THEN [i \in 1..Len(items) |-> IF items[i][1] = k THEN <<k, v>> ELSE items[i]]
    ELSE Append(items, <<k, v>>)

SetDefault(g, k) == IF k \in DOMAIN g THEN g ELSE g @@ (k :> <<>>)

\* graph.setdefault(c1, {})[c2] = d
AddArc(g, c1, c2, d) ==
    LET g1 == SetDefault(g, c1)
    IN  [g1 EXCEPT ![c1] = DictSet(g1[c1], c2, d)]

\* Variant: the arc back from city2 to city1 is missing.
RECURSIVE GraphOfEdges_OneWay(_, _)
GraphOfEdges_OneWay(es, g) ==
    IF es = <<>> THEN g
    ELSE LET e == Head(es)
         IN  GraphOfEdges_OneWay(Tail(es), AddArc(g, e[1], e[2], e[3]))

\* The loop of build_graph over an edge list: lines 55-59.
RECURSIVE GraphOfEdges(_, _)
GraphOfEdges(es, g) ==
    IF es = <<>> THEN g
    ELSE LET e == Head(es)
         IN  GraphOfEdges(Tail(es), AddArc(AddArc(g, e[1], e[2], e[3]), e[2], e[1], e[3]))

EmptyGraph == [k \in {} |-> <<>>]

edges ==
    << <<"Elmira", "Ithaca", 60>>,
       <<"Elmira", "Williamsport", 80>>,
       <<"Ithaca", "Binghamton", 80>>,
       <<"Binghamton", "Syracuse", 110>>,
       <<"Syracuse", "Albany", 200>>,
       <<"Binghamton", "Albany", 220>>,
       <<"Binghamton", "Scranton", 95>>,
       <<"Scranton", "Wilkes-Barre", 30>>,
       <<"Wilkes-Barre", "Stroudsburg", 105>>,
       <<"Stroudsburg", "Albany", 190>>,
       <<"Stroudsburg", "Paterson", 90>>,
       <<"Paterson", "New York City", 35>>,
       <<"Newark", "New York City", 25>>,
       <<"Trenton", "New York City", 95>>,
       <<"Allentown", "Newark", 130>>,
       <<"Allentown", "Trenton", 80>>,
       <<"Allentown", "Wilkes-Barre", 95>>,
       <<"Allentown", "Scranton", 120>>,
       <<"Allentown", "Harrisburg", 90>>,
       <<"Harrisburg", "Lancaster", 60>>,
       <<"Lancaster", "Philadelphia", 160>>,
       <<"Harrisburg", "Philadelphia", 110>>,
       <<"Harrisburg", "Williamsport", 135>>,
       <<"Harrisburg", "Scranton", 175>>,
       <<"Williamsport", "Scranton", 140>>,
       <<"Philadelphia", "Trenton", 50>> >>

build_graph == GraphOfEdges(edges, EmptyGraph)

(* ---------------- the search ---------------- *)
NoEntry == Entry(0, 0, "Nowhere", <<>>)

SearchResult(p, c, n) == [path |-> p, total_cost |-> c, nodes_generated |-> n]

NoResult == SearchResult(<<>>, 0, 0)

\* The local state the for loop over graph[current].items() updates.
Locals(fr, bc, ng, t) == [frontier |-> fr, best_cost |-> bc, nodes_generated |-> ng, tie |-> t]

\* Variant: a neighbor is pushed only the first time it is reached.
Relax_FirstReachOnly(s, cost, path, neighbor, step_cost) ==
    LET new_cost == cost + step_cost
    IN  IF neighbor \notin DOMAIN s.best_cost
        THEN Locals(HeapPush(s.frontier,
                             Entry(new_cost, s.tie + 1, neighbor, Append(path, neighbor))),
                    [n \in DOMAIN s.best_cost \cup {neighbor} |->
                        IF n = neighbor THEN new_cost ELSE s.best_cost[n]],
                    s.nodes_generated + 1,
                    s.tie + 1)
        ELSE s

\* Variant: new_cost forgets the cost accumulated so far.
Relax_StepCostOnly(s, cost, path, neighbor, step_cost) ==
    LET new_cost == step_cost
    IN  IF neighbor \notin DOMAIN s.best_cost \/ new_cost < s.best_cost[neighbor]
        THEN Locals(HeapPush(s.frontier,
                             Entry(new_cost, s.tie + 1, neighbor, Append(path, neighbor))),
                    [n \in DOMAIN s.best_cost \cup {neighbor} |->
                        IF n = neighbor THEN new_cost ELSE s.best_cost[n]],
                    s.nodes_generated + 1,
                    s.tie + 1)
        ELSE s

\* Variant: tie += 1 is missing.
Relax_NoTie(s, cost, path, neighbor, step_cost) ==
    LET new_cost == cost + step_cost
    IN  IF neighbor \notin DOMAIN s.best_cost \/ new_cost < s.best_cost[neighbor]
        THEN Locals(HeapPush(s.frontier,
                             Entry(new_cost, s.tie, neighbor, Append(path, neighbor))),
                    [n \in DOMAIN s.best_cost \cup {neighbor} |->
                        IF n = neighbor THEN new_cost ELSE s.best_cost[n]],
                    s.nodes_generated + 1,
                    s.tie)
        ELSE s

\* Variant: nodes_generated grows only when the neighbor is new.
Relax_CountNewOnly(s, cost, path, neighbor, step_cost) ==
    LET new_cost == cost + step_cost
    IN  IF neighbor \notin DOMAIN s.best_cost \/ new_cost < s.best_cost[neighbor]
        THEN Locals(HeapPush(s.frontier,
                             Entry(new_cost, s.tie + 1, neighbor, Append(path, neighbor))),
                    [n \in DOMAIN s.best_cost \cup {neighbor} |->
                        IF n = neighbor THEN new_cost ELSE s.best_cost[n]],
                    IF neighbor \notin DOMAIN s.best_cost
                    THEN s.nodes_generated + 1 ELSE s.nodes_generated,
                    s.tie + 1)
        ELSE s

\* One neighbor: lines 90-95.
Relax(s, cost, path, neighbor, step_cost) ==
    LET new_cost == cost + step_cost
    IN  IF neighbor \notin DOMAIN s.best_cost \/ new_cost < s.best_cost[neighbor]
        THEN Locals(HeapPush(s.frontier,
                             Entry(new_cost, s.tie + 1, neighbor, Append(path, neighbor))),
                    [n \in DOMAIN s.best_cost \cup {neighbor} |->
                        IF n = neighbor THEN new_cost ELSE s.best_cost[n]],
                    s.nodes_generated + 1,
                    s.tie + 1)
        ELSE s

\* The for loop over graph[current].items(): lines 89-95. The state after
\* one neighbor is bound to x, so that it is evaluated once.
RECURSIVE ExpandItems(_, _, _, _)
ExpandItems(items, s, cost, path) ==
    IF items = <<>> THEN s
    ELSE LET after == {Relax(s, cost, path, Head(items)[1], Head(items)[2])}
         IN  CHOOSE r \in {ExpandItems(Tail(items), x, cost, path) : x \in after} : TRUE

\* Variant: the start node is counted as generated.
SearchInit_CountsStart ==
    /\ frontier = HeapPush({}, Entry(0, 0, start, <<start>>))
    /\ tie = 0
    /\ best_cost = (start :> 0)
    /\ nodes_generated = 1
    /\ popped = NoEntry
    /\ pc = "loop"
    /\ result = NoResult

\* uniform_cost_search up to the loop: lines 76-82.
SearchInit ==
    /\ frontier = HeapPush({}, Entry(0, 0, start, <<start>>))
    /\ tie = 0
    /\ best_cost = (start :> 0)
    /\ nodes_generated = 0
    /\ popped = NoEntry
    /\ pc = "loop"
    /\ result = NoResult

\* Iteration that pops the goal: lines 85-87.
PopGoal ==
    /\ pc = "loop"
    /\ frontier # {}
    /\ LET x == HeapMin(frontier)
       IN  /\ x.node = goal
           /\ popped' = x
           /\ frontier' = frontier \ {x}
           /\ result' = SearchResult(x.path, x.cost, nodes_generated)
           /\ pc' = "returned"
    /\ UNCHANGED <<graph, start, goal, tie, best_cost, nodes_generated>>

\* Variant: the smallest entry is read but left in the heap.
PopExpand_Peek ==
    /\ pc = "loop"
    /\ frontier # {}
    /\ LET x == HeapMin(frontier)
       IN  /\ x.node # goal
           /\ x.node \in DOMAIN graph
           /\ popped' = x
           /\ LET s == ExpandItems(graph[x.node],
                                   Locals(frontier, best_cost, nodes_generated, tie),
                                   x.cost, x.path)
              IN  /\ frontier' = s.frontier
                  /\ best_cost' = s.best_cost
                  /\ nodes_generated' = s.nodes_generated
                  /\ tie' = s.tie
    /\ UNCHANGED <<graph, start, goal, pc, result>>

\* Variant: nodes_generated also grows at every pop.
PopExpand_CountsPops ==
    /\ pc = "loop"
    /\ frontier # {}
    /\ LET x == HeapMin(frontier)
       IN  /\ x.node # goal
           /\ x.node \in DOMAIN graph
           /\ popped' = x
           /\ LET s == ExpandItems(graph[x.node],
                                   Locals(frontier \ {x}, best_cost, nodes_generated, tie),
                                   x.cost, x.path)
              IN  /\ frontier' = s.frontier
                  /\ best_cost' = s.best_cost
                  /\ nodes_generated' = s.nodes_generated + 1
                  /\ tie' = s.tie
    /\ UNCHANGED <<graph, start, goal, pc, result>>

\* Iteration that expands a node: lines 85-95.
PopExpand ==
    /\ pc = "loop"
    /\ frontier # {}
    /\ LET x == HeapMin(frontier)
       IN  /\ x.node # goal
           /\ x.node \in DOMAIN graph
           /\ popped' = x
           /\ LET s == ExpandItems(graph[x.node],
                                   Locals(frontier \ {x}, best_cost, nodes_generated, tie),
                                   x.cost, x.path)
              IN  /\ frontier' = s.frontier
                  /\ best_cost' = s.best_cost
                  /\ nodes_generated' = s.nodes_generated
                  /\ tie' = s.tie
    /\ UNCHANGED <<graph, start, goal, pc, result>>

\* Iteration whose graph[current] raises KeyError: line 89.
PopKeyError ==
    /\ pc = "loop"
    /\ frontier # {}
    /\ LET x == HeapMin(frontier)
       IN  /\ x.node # goal
           /\ x.node \notin DOMAIN graph
           /\ popped' = x
           /\ frontier' = frontier \ {x}
           /\ pc' = "key_error"
    /\ UNCHANGED <<graph, start, goal, tie, best_cost, nodes_generated, result>>

\* Variant: an empty result is returned instead of the error.
RaiseNoPath_EmptyResult ==
    /\ pc = "loop"
    /\ frontier = {}
    /\ pc' = "returned"
    /\ result' = SearchResult(<<>>, 0, nodes_generated)
    /\ UNCHANGED <<graph, start, goal, frontier, tie, best_cost, nodes_generated,
                   popped>>

\* The loop ends with the frontier empty: line 97.
RaiseNoPath ==
    /\ pc = "loop"
    /\ frontier = {}
    /\ pc' = "no_path"
    /\ UNCHANGED <<graph, start, goal, frontier, tie, best_cost, nodes_generated,
                   popped, result>>

(* ---------------- inputs ---------------- *)
SynthNames == << "a", "b", "c", "d", "e", "f" >>

Nodes == {SynthNames[i] : i \in 1..MaxNodes}

\* All unordered pairs of the first j synthetic nodes, as a list.
RECURSIVE PairsUpTo(_)
PairsUpTo(j) ==
    IF j <= 1 THEN <<>>
    ELSE PairsUpTo(j - 1) \o [i \in 1..(j - 1) |-> <<SynthNames[i], SynthNames[j]>>]

PairSet == {PairsUpTo(MaxNodes)[i] : i \in 1..Len(PairsUpTo(MaxNodes))}

Reverse(s) == [i \in 1..Len(s) |-> s[Len(s) + 1 - i]]

\* The edge list of the pairs in E with weights w, in list order or reversed.
EdgeList(E, w, rev) ==
    LET all == PairsUpTo(MaxNodes)
        sel == SelectSeq(all, LAMBDA p : p \in E)
        lst == [i \in 1..Len(sel) |-> <<sel[i][1], sel[i][2], w[sel[i]]>>]
    IN  IF rev THEN Reverse(lst) ELSE lst

\* Nodes in ks that have no edge become keys with an empty dict.
WithKeys(g, ks) == [k \in DOMAIN g \cup ks |-> IF k \in DOMAIN g THEN g[k] ELSE <<>>]

\* A call on a symmetric graph with weights in 0..MaxWeight; start and goal
\* are nodes of the graph or a name the graph does not know.
Init ==
    /\ \E E \in SUBSET PairSet : \E w \in [E -> 0..MaxWeight] :
         \E rev \in BOOLEAN : \E bare \in BOOLEAN :
            graph = WithKeys(GraphOfEdges(EdgeList(E, w, rev), EmptyGraph),
                             IF bare THEN Nodes ELSE {})
    /\ start \in Nodes \cup {"Nowhere"}
    /\ goal \in Nodes \cup {"Nowhere"}
    /\ SearchInit

Next == PopGoal \/ PopExpand \/ PopKeyError \/ RaiseNoPath

Spec == Init /\ [][Next]_vars

\* The same calls with one start and goal per case: the goal unknown to the
\* graph, the goal a node of the graph, the start unknown to the graph.
FairInit ==
    /\ \E E \in SUBSET PairSet : \E w \in [E -> 0..MaxWeight] :
            graph = GraphOfEdges(EdgeList(E, w, FALSE), EmptyGraph)
    /\ \E sg \in { <<"a", "Nowhere">>, <<"a", SynthNames[MaxNodes]>>, <<"Nowhere", "a">> } :
            start = sg[1] /\ goal = sg[2]
    /\ SearchInit

\* The search is sequential code: a step that can be taken is taken.
FairSpec == FairInit /\ [][Next]_vars /\ WF_vars(Next)

Cities == {edges[i][1] : i \in 1..Len(edges)} \cup {edges[i][2] : i \in 1..Len(edges)}

\* main() calls the search on the New York map from Elmira to New York City;
\* here start and goal range over all cities of the map and a stranger.
InitNY ==
    /\ graph = build_graph
    /\ start \in Cities \cup {"Nowhere"}
    /\ goal \in Cities \cup {"Nowhere"}
    /\ SearchInit

SpecNY == InitNY /\ [][Next]_vars

(* ---------------- reference notions for the properties ---------------- *)
Items(g, n) == IF n \in DOMAIN g THEN {g[n][i] : i \in 1..Len(g[n])} ELSE {}

IsArc(g, a, b) == \E it \in Items(g, a) : it[1] = b

StepCost(g, a, b) == (CHOOSE it \in Items(g, a) : it[1] = b)[2]

\* p is a walk of g: every consecutive pair is an arc.
IsWalk(g, p) == \A i \in 1..(Len(p) - 1) : IsArc(g, p[i], p[i + 1])

RECURSIVE WalkCost(_, _)
WalkCost(g, p) ==
    IF Len(p) <= 1 THEN 0
    ELSE StepCost(g, p[1], p[2]) + WalkCost(g, Tail(p))

\* Brute force: the costs of all simple paths from n to t that avoid seen.
RECURSIVE SimplePathCosts(_, _, _, _)
SimplePathCosts(g, n, t, seen) ==
    IF n = t THEN {0}
    ELSE UNION { {it[2] + c : c \in SimplePathCosts(g, it[1], t, seen \cup {it[1]})} :
                 it \in {jt \in Items(g, n) : jt[1] \notin seen} }

SetMin(S) == CHOOSE m \in S : \A k \in S : m <= k

\* Nodes reachable from the set R.
RECURSIVE ReachFrom(_, _)
ReachFrom(g, R) ==
    LET R2 == R \cup {it[1] : it \in UNION {Items(g, n) : n \in R}}
    IN  IF R2 = R THEN R ELSE ReachFrom(g, R2)

Reachable(g, s, t) == t \in ReachFrom(g, {s})

Returned == pc = "returned"

(* ---------------- C1 ---------------- *)
\* C1: optimality. Whenever the search has returned, total_cost is the least
\* summed weight over all simple paths from start to goal (brute force).
C1_Optimal ==
    Returned =>
        LET costs == SimplePathCosts(graph, start, goal, {start})
        IN  /\ costs # {}
            /\ \A c \in costs : result.total_cost <= c
            /\ result.total_cost = SetMin(costs)

\* A returned search in which a dearer simple path existed and the cheapest
\* one has at least two edges.
C1_Witness ==
    /\ Returned
    /\ Len(result.path) >= 3
    /\ \E c \in SimplePathCosts(graph, start, goal, {start}) : c > result.total_cost

(* ---------------- C2 ---------------- *)
\* C2: the returned path starts at start, ends at goal, is a walk of the
\* graph, and its summed edge weights equal total_cost.
C2_PathSound ==
    Returned =>
        /\ Len(result.path) >= 1
        /\ result.path[1] = start
        /\ result.path[Len(result.path)] = goal
        /\ IsWalk(graph, result.path)
        /\ WalkCost(graph, result.path) = result.total_cost

C2_Witness ==
    /\ Returned
    /\ Len(result.path) >= 3
    /\ result.total_cost >= 1
    /\ result.path[1] = start
    /\ result.path[Len(result.path)] = goal

(* ---------------- C3 ---------------- *)
ElmiraToNewYork == graph = build_graph /\ start = "Elmira" /\ goal = "New York City"

\* The route the description of the map names.
RouteByScranton ==
    << "Elmira", "Ithaca", "Binghamton", "Scranton", "Wilkes-Barre",
       "Stroudsburg", "Paterson", "New York City" >>

RouteByHarrisburg ==
    << "Elmira", "Williamsport", "Harrisburg", "Allentown", "Newark",
       "New York City" >>

MapOptimum == SetMin(SimplePathCosts(build_graph, "Elmira", "New York City", {"Elmira"}))

\* C3 as stated: on the New York map, Elmira to New York City never fails and
\* returns total_cost 415 with a route of summed weight 415, and 415 is the
\* least summed weight over all simple routes of the edge list.
C3_NewYork415 ==
    ElmiraToNewYork =>
        /\ pc \in {"loop", "returned"}
        /\ Returned =>
              /\ result.total_cost = 415
              /\ result.path[1] = "Elmira"
              /\ result.path[Len(result.path)] = "New York City"
              /\ IsWalk(build_graph, result.path)
              /\ WalkCost(build_graph, result.path) = 415
              /\ MapOptimum = 415

\* C3 amended: on the New York map, Elmira to New York City never fails and
\* returns total_cost 460 with the route by Williamsport, Harrisburg,
\* Allentown and Newark (or another route of summed weight 460); 460 is the
\* least summed weight over all simple routes, and the route by Scranton and
\* Stroudsburg sums to 495.
C3_NewYork460 ==
    ElmiraToNewYork =>
        /\ pc \in {"loop", "returned"}
        /\ Returned =>
              /\ result.total_cost = 460
              /\ result.path[1] = "Elmira"
              /\ result.path[Len(result.path)] = "New York City"
              /\ IsWalk(build_graph, result.path)
              /\ WalkCost(build_graph, result.path) = 460
              /\ MapOptimum = 460
              /\ WalkCost(build_graph, RouteByScranton) = 495

C3_Witness ==
    /\ ElmiraToNewYork
    /\ Returned
    /\ result.path = RouteByHarrisburg
    /\ result.total_cost = 460

(* ---------------- C4 ---------------- *)
GoalCutOff == start \in DOMAIN graph /\ start # goal /\ ~Reachable(graph, start, goal)

\* C4: when start is a key and the goal cannot be reached from it, the search
\* never returns a result and never fails with another error: it keeps
\* iterating until the frontier is empty and then raises the no-path error.
C4_Unreachable ==
    GoalCutOff =>
        /\ pc \in {"loop", "no_path"}
        /\ result = NoResult
        /\ pc = "no_path" => frontier = {}
        /\ \A x \in frontier : x.node # goal /\ x.node \in DOMAIN graph

C4_Witness ==
    /\ GoalCutOff
    /\ goal \in Nodes
    /\ pc = "no_path"
    /\ tie >= 1

(* ---------------- C5 ---------------- *)
\* C5: when start is not a key of the graph and differs from the goal, the
\* search ends with the no-path error and with no other error.
C5_MissingStartNoPath ==
    (start \notin DOMAIN graph /\ start # goal /\ pc # "loop") => pc = "no_path"

(* ---------------- C6 ---------------- *)
\* C6: when start = goal the search returns the path [start], cost 0 and
\* nodes_generated 0, and nothing has been expanded or pushed.
C6_StartIsGoal ==
    start = goal =>
        /\ tie = 0
        /\ nodes_generated = 0
        /\ best_cost = (start :> 0)
        /\ pc \in {"loop", "returned"}
        /\ pc = "loop" => frontier = {Entry(0, 0, start, <<start>>)}
        /\ Returned => frontier = {} /\ result = SearchResult(<<start>>, 0, 0)

C6_Witness ==
    /\ start = goal
    /\ Returned
    /\ start \in DOMAIN graph
    /\ Len(graph[start]) >= 2

(* ---------------- C7 ---------------- *)
\* C7: every pop removes an entry of least cost and, among the entries of
\* that cost, the one with the smallest insertion number, whatever the node
\* names are; a returned path is the path of the entry popped.
C7_PopOrder ==
    [][ (pc = "loop" /\ frontier # {}) =>
            /\ popped' \in frontier
            /\ popped' \notin frontier'
            /\ \A y \in frontier \ {popped'} :
                  \/ popped'.cost < y.cost
                  \/ popped'.cost = y.cost /\ popped'.tie < y.tie
            /\ pc' = "returned" => popped'.node = goal /\ result'.path = popped'.path
      ]_vars

\* The goal was popped while an entry of the same cost, with a node name that
\* sorts before the goal's, was waiting in the frontier.
C7_Witness ==
    /\ Returned
    /\ \E y \in frontier : y.cost = popped.cost /\ StrLess(y.node, popped.node)

(* ---------------- C8 ---------------- *)
Insertions == tie

DistinctReached == Cardinality(DOMAIN best_cost \ {start})

\* C8 as stated: the returned nodes_generated is the number of distinct nodes
\* other than start recorded in the best-cost table.
C8_CountsDistinctNodes == Returned => result.nodes_generated = DistinctReached

\* C8 amended: nodes_generated never counts the start entry and counts every
\* frontier insertion once: each step raises it by the number of entries the
\* step pushed, it equals the insertion counter, it is at least the number of
\* distinct nodes reached, and the result carries it unchanged.
C8_CountsInsertions ==
    /\ [](/\ nodes_generated = Insertions
          /\ nodes_generated >= DistinctReached
          /\ Cardinality(frontier) <= nodes_generated + 1
          /\ Returned => result.nodes_generated = nodes_generated)
    /\ [][ nodes_generated' - nodes_generated = Cardinality(frontier' \ frontier) ]_vars

\* A returned search in which some node was improved and pushed again.
C8_Witness == Returned /\ result.nodes_generated > DistinctReached

(* ---------------- C9 ---------------- *)
\* C9: when start is a key of the graph the loop eventually stops, by
\* returning a result or by raising the no-path error.
C9_Terminates == (start \in DOMAIN graph) ~> (pc \in {"returned", "no_path"})

C9_Witness ==
    /\ start \in DOMAIN graph
    /\ pc \in {"returned", "no_path"}
    /\ nodes_generated > DistinctReached

(* ---------------- C10 ---------------- *)
\* C10: popping an entry whose cost is above the best cost recorded for its
\* node pushes nothing and leaves best_cost, tie and nodes_generated alone.
C10_StaleInert ==
    [][ ( /\ pc = "loop"
          /\ popped' \in frontier
          /\ popped'.node \in DOMAIN best_cost
          /\ popped'.cost > best_cost[popped'.node] ) =>
            /\ frontier' = frontier \ {popped'}
            /\ UNCHANGED <<best_cost, tie, nodes_generated>>
      ]_vars

\* A stale entry of a node with neighbors has been popped and expanded.
C10_Witness ==
    /\ popped # NoEntry
    /\ popped.node \in DOMAIN best_cost
    /\ popped.cost > best_cost[popped.node]
    /\ popped.node \in DOMAIN graph
    /\ Len(graph[popped.node]) >= 2

====
